---- MODULE Spec2Model ----
(***************************************************************************)
(* Model of src/server.js: an Express application serving CRUD, search,    *)
(* filtering, pagination and statistics over an in-memory product list.    *)
(*                                                                         *)
(* JavaScript values are tagged records of one shape, so that values of    *)
(* different JavaScript types can be stored, spread and compared.          *)
(***************************************************************************)
EXTENDS Integers, Sequences, FiniteSets, TLC

VARIABLES
  products,  \* the in-memory list of products
  nextId,    \* the number of the next identifier uuidv4() returns
  req,       \* the request of the exchange in progress
  res,       \* the response written to it
  pc,        \* "idle" between exchanges, "done" once the response is written
  deleted    \* history: the ids deleted with 204 since the last create

vars == <<products, nextId, req, res, pc, deleted>>

-----------------------------------------------------------------------------
(* Bounds of the model *)

\* uuidv4() is called at most MaxCreates times in a behaviour.
MaxCreates == 1

-----------------------------------------------------------------------------
(* JavaScript values *)

Undefined == [t |-> "undefined", s |-> "", n |-> 0, b |-> FALSE]
Str(x) == [t |-> "string", s |-> x, n |-> 0, b |-> FALSE]
Num(x) == [t |-> "number", s |-> "", n |-> x, b |-> FALSE]
Bool(x) == [t |-> "boolean", s |-> "", n |-> 0, b |-> x]

\* typeof v
TypeOf(v) == v.t

\* !v
Falsy(v) ==
  \/ v.t = "undefined"
  \/ v.t = "string" /\ v.s = ""
  \/ v.t = "number" /\ v.n = 0
  \/ v.t = "boolean" /\ ~v.b

\* a === b
StrictEq(a, b) == a = b

UpperChars == "ABCDEFGHIJKLMNOPQRSTUVWXYZ"
LowerChars == "abcdefghijklmnopqrstuvwxyz"

CharAt(s, i) == SubSeq(s, i, i)

LowerChar(c) ==
  IF \E i \in 1..Len(UpperChars) : CharAt(UpperChars, i) = c
  THEN CharAt(LowerChars, CHOOSE i \in 1..Len(UpperChars) : CharAt(UpperChars, i) = c)
  ELSE c

\* String.prototype.toLowerCase
RECURSIVE ToLowerCase(_)
ToLowerCase(s) ==
  IF Len(s) = 0 THEN ""
  ELSE LowerChar(CharAt(s, 1)) \o ToLowerCase(SubSeq(s, 2, Len(s)))

\* String.prototype.includes
Includes(s, q) ==
  \E i \in 1..(Len(s) - Len(q) + 1) : SubSeq(s, i, i + Len(q) - 1) = q

DigitChars == "0123456789"

IsDigit(c) == \E i \in 1..Len(DigitChars) : CharAt(DigitChars, i) = c

DigitValue(c) == (CHOOSE i \in 1..Len(DigitChars) : CharAt(DigitChars, i) = c) - 1

\* The longest prefix of s made of decimal digits.
RECURSIVE DigitPrefix(_)
DigitPrefix(s) ==
  IF Len(s) = 0 \/ ~IsDigit(CharAt(s, 1)) THEN ""
  ELSE CharAt(s, 1) \o DigitPrefix(SubSeq(s, 2, Len(s)))

RECURSIVE DigitsValue(_, _)
DigitsValue(s, acc) ==
  IF Len(s) = 0 THEN acc
  ELSE DigitsValue(SubSeq(s, 2, Len(s)), acc * Len(DigitChars) + DigitValue(CharAt(s, 1)))

NaN == [nan |-> TRUE, n |-> 0]

\* parseInt(v): an optional sign, then the leading decimal digits; NaN when
\* there are none (and for undefined).
ParseInt(v) ==
  IF v.t # "string" THEN NaN
  ELSE LET neg == Len(v.s) > 0 /\ CharAt(v.s, 1) = "-"
           pos == Len(v.s) > 0 /\ CharAt(v.s, 1) = "+"
           body == IF neg \/ pos THEN SubSeq(v.s, 2, Len(v.s)) ELSE v.s
           digits == DigitPrefix(body)
       IN IF Len(digits) = 0 THEN NaN
          ELSE [nan |-> FALSE,
                n |-> IF neg THEN 0 - DigitsValue(digits, 0) ELSE DigitsValue(digits, 0)]

\* x || dflt for a parseInt result: NaN and 0 are falsy.
OrDefault(x, dflt) == IF x.nan \/ x.n = 0 THEN dflt ELSE x.n

Min(a, b) == IF a < b THEN a ELSE b
Max(a, b) == IF a > b THEN a ELSE b

\* Array.prototype.slice(start, end), indexes counted from 0; a negative index
\* counts from the end of the array.
Slice(seq, start, end) ==
  LET len == Len(seq)
      k == IF start < 0 THEN Max(len + start, 0) ELSE Min(start, len)
      final == IF end < 0 THEN Max(len + end, 0) ELSE Min(end, len)
  IN IF final <= k THEN <<>> ELSE SubSeq(seq, k + 1, final)

\* Array.prototype.filter is SelectSeq.

-----------------------------------------------------------------------------
(* Objects: a product or a request body is a function from Keys to values; *)
(* a key the object does not have holds Undefined.                         *)

Keys == {"id", "name", "description", "price", "category", "inStock"}

EmptyObject == [k \in Keys |-> Undefined]

\* {...a, ...b}: the keys of b override those of a.
Spread(a, b) == [k \in Keys |-> IF b[k] # Undefined THEN b[k] ELSE a[k]]

WithId(v) == [EmptyObject EXCEPT !["id"] = v]

Product(id, name, description, price, category, inStock) ==
  [k \in Keys |->
     CASE k = "id" -> Str(id)
       [] k = "name" -> Str(name)
       [] k = "description" -> Str(description)
       [] k = "price" -> Num(price)
       [] k = "category" -> Str(category)
       [] k = "inStock" -> Bool(inStock)]

\* store.findIndex(p => p.id === id), counted from 1; 0 stands for -1.
FindIndexById(store, id) ==
  IF \E i \in 1..Len(store) : StrictEq(store[i]["id"], Str(id))
  THEN CHOOSE i \in 1..Len(store) :
         /\ StrictEq(store[i]["id"], Str(id))
         /\ \A j \in 1..(i - 1) : ~StrictEq(store[j]["id"], Str(id))
  ELSE 0

-----------------------------------------------------------------------------
(* Errors *)

NoError == [name |-> "", message |-> "", statusCode |-> 0]

NotFoundError(message) == [name |-> "NotFoundError", message |-> message, statusCode |-> 404]

ValidationError(message) == [name |-> "ValidationError", message |-> message, statusCode |-> 400]

AuthError(message) == [name |-> "AuthError", message |-> message, statusCode |-> 401]

\* An error thrown by the runtime: it has no statusCode.
TypeError(message) == [name |-> "TypeError", message |-> message, statusCode |-> 0]

-----------------------------------------------------------------------------
(* Middleware: each returns the error it throws, or NoError when it calls  *)
(* next().                                                                 *)

ApiKey == "secret-api-key"

apiKeyMiddleware(r) ==
  IF Falsy(r.key) \/ ~StrictEq(r.key, Str(ApiKey))
  THEN AuthError("Invalid or missing API key")
  ELSE NoError

\* The validation without the test of the sign of the price.
validateWithoutPriceSign(r) ==
  LET product == r.body IN
  IF Falsy(product["name"]) \/ TypeOf(product["name"]) # "string"
    THEN ValidationError("Product name is required and must be a string")
  ELSE IF Falsy(product["description"]) \/ TypeOf(product["description"]) # "string"
    THEN ValidationError("Product description is required and must be a string")
  ELSE IF Falsy(product["price"]) \/ TypeOf(product["price"]) # "number"
    THEN ValidationError("Product price is required and must be a positive number")
  ELSE IF Falsy(product["category"]) \/ TypeOf(product["category"]) # "string"
    THEN ValidationError("Product category is required and must be a string")
  ELSE IF TypeOf(product["inStock"]) # "boolean"
    THEN ValidationError("Product inStock status is required and must be a boolean")
  ELSE NoError

validateProductMiddleware(r) ==
  LET product == r.body IN
  IF Falsy(product["name"]) \/ TypeOf(product["name"]) # "string"
    THEN ValidationError("Product name is required and must be a string")
  ELSE IF Falsy(product["description"]) \/ TypeOf(product["description"]) # "string"
    THEN ValidationError("Product description is required and must be a string")
  ELSE IF Falsy(product["price"]) \/ TypeOf(product["price"]) # "number"
          \/ product["price"].n <= 0
    THEN ValidationError("Product price is required and must be a positive number")
  ELSE IF Falsy(product["category"]) \/ TypeOf(product["category"]) # "string"
    THEN ValidationError("Product category is required and must be a string")
  ELSE IF TypeOf(product["inStock"]) # "boolean"
    THEN ValidationError("Product inStock status is required and must be a boolean")
  ELSE NoError

\* The middleware of a route run in the order of its registration: the first
\* error thrown ends the chain.
RECURSIVE FirstError(_)
FirstError(errs) ==
  IF Len(errs) = 0 THEN NoError
  ELSE IF Head(errs) # NoError THEN Head(errs)
  ELSE FirstError(Tail(errs))

PostMiddleware(r) == FirstError(<<apiKeyMiddleware(r), validateProductMiddleware(r)>>)

\* The middleware of the update route registered in the other order.
PutMiddlewareValidateFirst(r) ==
  FirstError(<<validateProductMiddleware(r), apiKeyMiddleware(r)>>)

PutMiddleware(r) == FirstError(<<apiKeyMiddleware(r), validateProductMiddleware(r)>>)

DeleteMiddleware(r) == FirstError(<<apiKeyMiddleware(r)>>)

-----------------------------------------------------------------------------
(* The store *)

SeedProducts ==
  << Product("1", "Laptop", "High-performance laptop with 16GB RAM", 1200,
             "electronics", TRUE),
     Product("2", "Smartphone", "Latest model with 128GB storage", 800,
             "electronics", TRUE),
     Product("3", "Coffee Maker", "Programmable coffee maker with timer", 50,
             "kitchen", FALSE) >>

\* The n-th identifier uuidv4() returns: each call returns a new one.
uuidv4(n) == "uuid-" \o ToString(n)

-----------------------------------------------------------------------------
(* The router: the layers of the application in the order of registration. *)
(* A path is the sequence of its segments.                                 *)

Layer(name, kind, method, pattern) ==
  [name |-> name, kind |-> kind, method |-> method, pattern |-> pattern]

Stack ==
  << Layer("bodyParser.json", "use", "", <<>>),
     Layer("loggerMiddleware", "use", "", <<>>),
     Layer("GET /", "route", "GET", <<>>),
     Layer("GET /api/products", "route", "GET", <<"api", "products">>),
     Layer("GET /api/products/search", "route", "GET", <<"api", "products", "search">>),
     Layer("GET /api/products/stats", "route", "GET", <<"api", "products", "stats">>),
     Layer("GET /api/products/:id", "route", "GET", <<"api", "products", ":id">>),
     Layer("POST /api/products", "route", "POST", <<"api", "products">>),
     Layer("PUT /api/products/:id", "route", "PUT", <<"api", "products", ":id">>),
     Layer("DELETE /api/products/:id", "route", "DELETE", <<"api", "products", ":id">>),
     Layer("errorHandler", "error", "", <<>>),
     Layer("notFoundHandler", "final", "", <<>>) >>

IsParam(segment) == Len(segment) > 0 /\ CharAt(segment, 1) = ":"

PathMatches(pattern, path) ==
  /\ Len(pattern) = Len(path)
  /\ \A i \in 1..Len(pattern) : IsParam(pattern[i]) \/ pattern[i] = path[i]

\* The layer answers the request itself (bodyParser.json and loggerMiddleware
\* call next(); an error layer is skipped while there is no error).
Handles(layer, r) ==
  \/ layer.kind = "final"
  \/ layer.kind = "route" /\ layer.method = r.method /\ PathMatches(layer.pattern, r.path)

\* The request walks the stack from the layer i on: the index of the first
\* layer that answers it.
RECURSIVE DispatchFrom(_, _)
DispatchFrom(r, i) == IF Handles(Stack[i], r) THEN i ELSE DispatchFrom(r, i + 1)

Dispatch(r) == DispatchFrom(r, 1)

LayerIndex(name) == CHOOSE i \in 1..Len(Stack) : Stack[i].name = name

Handler(r) == Stack[Dispatch(r)].name

\* req.params.id
ParamId(r) == r.path[Len(r.path)]

-----------------------------------------------------------------------------
(* Responses *)

NoStats == [totalProducts |-> 0, inStock |-> 0, outOfStock |-> 0, categories |-> <<>>]

NoRes ==
  [status |-> 0, format |-> "none", error |-> NoError, product |-> EmptyObject,
   products |-> <<>>, total |-> 0, page |-> 0, limit |-> 0, stats |-> NoStats,
   handler |-> ""]

\* The error handling middleware: res.status(statusCode).json({error: ...}).
errorHandler(err, from) ==
  LET statusCode == IF err.statusCode = 0 THEN 500 ELSE err.statusCode
      message == IF err.message = "" THEN "Internal Server Error" ELSE err.message
  IN [NoRes EXCEPT !.status = statusCode,
                   !.format = "json",
                   !.error = [name |-> IF err.name = "" THEN "Error" ELSE err.name,
                              message |-> message,
                              statusCode |-> statusCode],
                   !.handler = from]

\* No error layer is left in the stack: the framework's own final handler
\* answers with the error's status and an HTML page.
finalHandler(err, from) ==
  [NoRes EXCEPT !.status = IF err.statusCode = 0 THEN 500 ELSE err.statusCode,
                !.format = "html",
                !.handler = from]

\* An error thrown by the layer `from` goes to the first error layer
\* registered after it.
Throw(err, from) ==
  IF \E j \in (LayerIndex(from) + 1)..Len(Stack) : Stack[j].kind = "error"
  THEN errorHandler(err, from)
  ELSE finalHandler(err, from)

JsonProduct(status, product, from) ==
  [NoRes EXCEPT !.status = status, !.format = "json", !.product = product,
                !.handler = from]

-----------------------------------------------------------------------------
(* Requests *)

NoQuery ==
  [category |-> Undefined, inStock |-> Undefined, page |-> Undefined,
   limit |-> Undefined, q |-> Undefined]

NoReq == [method |-> "", path |-> <<>>, key |-> Undefined, body |-> EmptyObject,
          query |-> NoQuery]

Request(method, path, key, body, query) ==
  [method |-> method, path |-> path, key |-> key, body |-> body, query |-> query]

Fields == Keys \ {"id"}

FullBody == Product("", "Mouse", "Wireless mouse", 25, "Electronics", TRUE)

OtherBody == Product("", "Kettle", "Electric kettle", 40, "kitchen", FALSE)

\* Values the validation rejects for a field.
BadValues(k) ==
  CASE k = "name" -> {Str(""), Num(7)}
    [] k = "description" -> {Str(""), Num(7)}
    [] k = "price" -> {Num(0), Num(0 - 5), Str("25")}
    [] k = "category" -> {Str(""), Bool(TRUE)}
    [] k = "inStock" -> {Str("true"), Num(1)}

\* Request bodies without an id: the complete body, the complete body with
\* one field missing or invalid, the bodies of one field, and the empty body.
BodyShapes ==
  {[FullBody EXCEPT !["id"] = Undefined]}
  \cup {[FullBody EXCEPT !["id"] = Undefined, ![k] = v] :
          <<k, v>> \in UNION {{<<f, w>> : w \in BadValues(f) \cup {Undefined}} : f \in Fields}}
  \cup {[EmptyObject EXCEPT ![k] = OtherBody[k]] : k \in Fields}
  \cup {EmptyObject}

BodyIds == {Undefined, Str("1")}

Bodies == {[b EXCEPT !["id"] = i] : b \in BodyShapes, i \in BodyIds}

HeaderKeys == {Undefined, Str("wrong-key"), Str(ApiKey)}

\* Identifiers a client may put in a path: one of the seed, one that never
\* exists, and those generated so far.
PathIds(n) == {"1", "9"} \cup {uuidv4(k) : k \in 1..(n - 1)}

Collection == <<"api", "products">>

Item(id) == <<"api", "products", id>>

PageValues == {Undefined, Str("0"), Str("1"), Str("2"), Str("3"), Str("-1"), Str("x")}

LimitValues == {Undefined, Str("0"), Str("1"), Str("2"), Str("-2")}

ListQueries ==
  {[NoQuery EXCEPT !.category = c, !.inStock = s, !.page = p, !.limit = l] :
     c \in {Undefined, Str("Electronics")}, s \in {Undefined, Str("TRUE")},
     p \in PageValues, l \in LimitValues}

SearchQueries == {[NoQuery EXCEPT !.q = x] : x \in {Undefined, Str("LAP"), Str("o"), Str("zz")}}

\* Requests no route matches.
Unmatched ==
  {Request("GET", <<"nope">>, Undefined, EmptyObject, NoQuery),
   Request("POST", Item("1"), Str(ApiKey), FullBody, NoQuery),
   Request("PUT", Collection, Str(ApiKey), FullBody, NoQuery),
   Request("DELETE", Collection, Str(ApiKey), EmptyObject, NoQuery)}

-----------------------------------------------------------------------------
(* Query helpers of GET /api/products *)

CategoryMatches(product, category) ==
  ToLowerCase(product["category"].s) = ToLowerCase(category.s)

\* The products left by the category and inStock filters.
Filtered(store, query) ==
  LET byCategory ==
        IF ~Falsy(query.category)
        THEN SelectSeq(store, LAMBDA product : CategoryMatches(product, query.category))
        ELSE store
      inStock == ToLowerCase(query.inStock.s) = "true"
  IN IF ~Falsy(query.inStock)
     THEN SelectSeq(byCategory, LAMBDA product : StrictEq(product["inStock"], Bool(inStock)))
     ELSE byCategory

DefaultPage == 1
DefaultLimit == 10

Page(query) == OrDefault(ParseInt(query.page), DefaultPage)

Limit(query) == OrDefault(ParseInt(query.limit), DefaultLimit)

\* The pagination with pages counted from 0.
PaginateFromZero(filteredProducts, page, limit) ==
  LET startIndex == page * limit
      endIndex == (page + 1) * limit
  IN Slice(filteredProducts, startIndex, endIndex)

Paginate(filteredProducts, page, limit) ==
  LET startIndex == (page - 1) * limit
      endIndex == page * limit
  IN Slice(filteredProducts, startIndex, endIndex)

\* The key an object property gets from a value.
PropertyKey(v) ==
  CASE v.t = "string" -> v.s
    [] v.t = "number" -> ToString(v.n)
    [] v.t = "boolean" -> IF v.b THEN "true" ELSE "false"
    [] OTHER -> "undefined"

Stats(store) ==
  LET count(Test(_)) == Cardinality({i \in 1..Len(store) : Test(store[i])})
      categories == {PropertyKey(store[i]["category"]) : i \in 1..Len(store)}
  IN [totalProducts |-> Len(store),
      inStock |-> count(LAMBDA p : ~Falsy(p["inStock"])),
      outOfStock |-> count(LAMBDA p : Falsy(p["inStock"])),
      categories |-> [c \in categories |->
                        count(LAMBDA p : PropertyKey(p["category"]) = c)]]

\* A call of toLowerCase on a value that is no string throws.
NotAString(store, k) == \E i \in 1..Len(store) : store[i][k].t # "string"

-----------------------------------------------------------------------------
(* Steps.  One step per handler: a request enters the application         *)
(* (bodyParser.json has parsed the body, loggerMiddleware has logged it)   *)
(* and the layer Dispatch selects runs to completion.  req and res keep    *)
(* the exchange until the server turns to the next request.                *)

Init ==
  /\ products = SeedProducts
  /\ nextId = 1
  /\ req = NoReq
  /\ res = NoRes
  /\ pc = "idle"
  /\ deleted = {}

\* The request r reaches the layer `name`.
Accept(r, name) == Handler(r) = name /\ req' = r

Respond(response) == res' = response /\ pc' = "done"

GetRoot ==
  /\ pc = "idle"
  /\ \E x \in {NoQuery} :
    LET r == Request("GET", <<>>, Undefined, EmptyObject, x) IN
    /\ Accept(r, "GET /")
    /\ Respond([NoRes EXCEPT !.status = 200, !.format = "text", !.handler = "GET /"])
    /\ UNCHANGED <<products, nextId, deleted>>

GetProducts ==
  /\ pc = "idle"
  /\ \E x \in ListQueries :
    LET r == Request("GET", Collection, Undefined, EmptyObject, x) IN
    /\ Accept(r, "GET /api/products")
    /\ IF ~Falsy(r.query.category) /\ NotAString(products, "category")
       THEN Respond(Throw(TypeError("product.category.toLowerCase is not a function"),
                          "GET /api/products"))
       ELSE LET filteredProducts == Filtered(products, r.query)
                page == Page(r.query)
                limit == Limit(r.query)
            IN Respond([NoRes EXCEPT !.status = 200,
                                     !.format = "json",
                                     !.total = Len(filteredProducts),
                                     !.page = page,
                                     !.limit = limit,
                                     !.products = Paginate(filteredProducts, page, limit),
                                     !.handler = "GET /api/products"])
    /\ UNCHANGED <<products, nextId, deleted>>

SearchProducts ==
  /\ pc = "idle"
  /\ \E x \in SearchQueries :
    LET r == Request("GET", Item("search"), Undefined, EmptyObject, x) IN
    /\ Accept(r, "GET /api/products/search")
    /\ IF Falsy(r.query.q)
       THEN Respond(Throw(ValidationError("Search query parameter \"q\" is required"),
                          "GET /api/products/search"))
       ELSE IF NotAString(products, "name")
       THEN Respond(Throw(TypeError("product.name.toLowerCase is not a function"),
                          "GET /api/products/search"))
       ELSE LET searchTerm == ToLowerCase(r.query.q.s)
                matchedProducts ==
                  SelectSeq(products,
                         LAMBDA product : Includes(ToLowerCase(product["name"].s), searchTerm))
            IN Respond([NoRes EXCEPT !.status = 200,
                                     !.format = "json",
                                     !.products = matchedProducts,
                                     !.handler = "GET /api/products/search"])
    /\ UNCHANGED <<products, nextId, deleted>>

GetStats ==
  /\ pc = "idle"
  /\ \E x \in {NoQuery} :
    LET r == Request("GET", Item("stats"), Undefined, EmptyObject, x) IN
    /\ Accept(r, "GET /api/products/stats")
    /\ Respond([NoRes EXCEPT !.status = 200, !.format = "json", !.stats = Stats(products),
                             !.handler = "GET /api/products/stats"])
    /\ UNCHANGED <<products, nextId, deleted>>

GetProductById ==
  /\ pc = "idle"
  /\ \E i \in PathIds(nextId) :
    LET r == Request("GET", Item(i), Undefined, EmptyObject, NoQuery) IN
    /\ Accept(r, "GET /api/products/:id")
    /\ LET found == FindIndexById(products, ParamId(r))
       IN IF found = 0
          THEN Respond(Throw(NotFoundError("Product not found"), "GET /api/products/:id"))
          ELSE Respond(JsonProduct(200, products[found], "GET /api/products/:id"))
    /\ UNCHANGED <<products, nextId, deleted>>

\* {id: uuidv4(), ...req.body}
NewProduct(uuid, body) == Spread(WithId(Str(uuid)), body)

CreateProduct ==
  /\ pc = "idle"
  /\ \E k \in HeaderKeys, b \in Bodies :
    LET r == Request("POST", Collection, k, b, NoQuery) IN
    /\ Accept(r, "POST /api/products")
    /\ LET err == PostMiddleware(r)
           newProduct == NewProduct(uuidv4(nextId), r.body)
       IN IF err # NoError
          THEN /\ Respond(Throw(err, "POST /api/products"))
               /\ UNCHANGED <<products, nextId, deleted>>
          ELSE /\ nextId <= MaxCreates
               /\ products' = Append(products, newProduct)
               /\ nextId' = nextId + 1
               /\ deleted' = {}
               /\ Respond(JsonProduct(201, newProduct, "POST /api/products"))

\* The update with the payload spread last: {...old, id: req.params.id, ...req.body}
UpdatedProductBodyLast(old, body, id) == Spread(Spread(old, WithId(Str(id))), body)

\* {...products[productIndex], ...req.body, id: req.params.id}
UpdatedProduct(old, body, id) == Spread(Spread(old, body), WithId(Str(id)))

UpdateProduct ==
  /\ pc = "idle"
  /\ \E i \in PathIds(nextId), k \in HeaderKeys, b \in Bodies :
    LET r == Request("PUT", Item(i), k, b, NoQuery) IN
    /\ Accept(r, "PUT /api/products/:id")
    /\ LET err == PutMiddleware(r)
           productIndex == FindIndexById(products, ParamId(r))
       IN IF err # NoError
          THEN /\ Respond(Throw(err, "PUT /api/products/:id"))
               /\ UNCHANGED products
          ELSE IF productIndex = 0
          THEN /\ Respond(Throw(NotFoundError("Product not found"), "PUT /api/products/:id"))
               /\ UNCHANGED products
          ELSE LET updatedProduct ==
                     UpdatedProduct(products[productIndex], r.body, ParamId(r))
               IN /\ products' = [products EXCEPT ![productIndex] = updatedProduct]
                  /\ Respond(JsonProduct(200, updatedProduct, "PUT /api/products/:id"))
    /\ UNCHANGED <<nextId, deleted>>

\* The removal of the first match alone: products.splice(productIndex, 1).
RemainingSplice(store, id) ==
  LET i == FindIndexById(store, id)
  IN SubSeq(store, 1, i - 1) \o SubSeq(store, i + 1, Len(store))

\* The removal that moves the last record into the place of the first match.
RemainingSwapRemove(store, id) ==
  LET i == FindIndexById(store, id)
      moved == [store EXCEPT ![i] = store[Len(store)]]
  IN SelectSeq(SubSeq(moved, 1, Len(store) - 1), LAMBDA p : ~StrictEq(p["id"], Str(id)))

\* products.filter(p => p.id !== req.params.id)
Remaining(store, id) == SelectSeq(store, LAMBDA p : ~StrictEq(p["id"], Str(id)))

DeleteProduct ==
  /\ pc = "idle"
  /\ \E i \in PathIds(nextId), k \in HeaderKeys :
    LET r == Request("DELETE", Item(i), k, EmptyObject, NoQuery) IN
    /\ Accept(r, "DELETE /api/products/:id")
    /\ LET err == DeleteMiddleware(r)
           productIndex == FindIndexById(products, ParamId(r))
       IN IF err # NoError
          THEN /\ Respond(Throw(err, "DELETE /api/products/:id"))
               /\ UNCHANGED <<products, deleted>>
          ELSE IF productIndex = 0
          THEN /\ Respond(Throw(NotFoundError("Product not found"),
                                "DELETE /api/products/:id"))
               /\ UNCHANGED <<products, deleted>>
          ELSE /\ products' = Remaining(products, ParamId(r))
               /\ deleted' = deleted \cup {ParamId(r)}
               /\ Respond([NoRes EXCEPT !.status = 204, !.format = "empty",
                                        !.handler = "DELETE /api/products/:id"])
    /\ UNCHANGED nextId

NotFoundHandler ==
  /\ pc = "idle"
  /\ \E u \in Unmatched :
    LET r == u IN
    /\ Accept(r, "notFoundHandler")
    /\ Respond(Throw(NotFoundError("Endpoint not found"), "notFoundHandler"))
    /\ UNCHANGED <<products, nextId, deleted>>

\* The response has been sent: the server waits for the next request.
EndResponse ==
  /\ pc = "done"
  /\ pc' = "idle"
  /\ req' = NoReq
  /\ res' = NoRes
  /\ UNCHANGED <<products, nextId, deleted>>

Next ==
  \/ GetRoot
  \/ GetProducts
  \/ SearchProducts
  \/ GetStats
  \/ GetProductById
  \/ CreateProduct
  \/ UpdateProduct
  \/ DeleteProduct
  \/ NotFoundHandler
  \/ EndResponse

Spec == Init /\ [][Next]_vars

-----------------------------------------------------------------------------
(* Properties *)

Done == pc = "done"

IdsOf(store) == {store[i]["id"] : i \in 1..Len(store)}

Mutating == {"POST /api/products", "PUT /api/products/:id", "DELETE /api/products/:id"}

Authenticated(r) == r.key = Str(ApiKey)

\* The five field rules, stated on a record.
SatisfiesFieldRules(p) ==
  /\ p["name"].t = "string" /\ p["name"].s # ""
  /\ p["description"].t = "string" /\ p["description"].s # ""
  /\ p["price"].t = "number" /\ p["price"].n > 0
  /\ p["category"].t = "string" /\ p["category"].s # ""
  /\ p["inStock"].t = "boolean"

\* C1: no two records of the store have the same id (violated: a created
\* record takes the id its payload carries).
C1_UniqueIds ==
  \A i, j \in 1..Len(products) : i # j => products[i]["id"] # products[j]["id"]

\* C2: a successful create stores and returns a record whose id is the
\* identifier just generated, whatever the payload carries (violated by a
\* payload with an id).
C2_CreateUsesGeneratedId ==
  Done /\ Handler(req) = "POST /api/products" /\ res.status = 201
    => /\ res.product["id"] = Str(uuidv4(nextId - 1))
       /\ products[Len(products)] = res.product

\* C3: every response that is not 2xx has the body {error: {name, message,
\* statusCode}} (violated by the answer to an unmatched route).
C3_ErrorEnvelope ==
  Done /\ res.status \notin 200..299
    => /\ res.format = "json"
       /\ res.error.name # ""
       /\ res.error.message # ""
       /\ res.error.statusCode = res.status

\* C4: an authenticated update of an existing id is answered 200 when the
\* stored record overlaid by the payload satisfies the five field rules, and
\* 400 otherwise (violated by a partial payload).
C4_UpdateValidatesMerged ==
  [][(Done' /\ Handler(req') = "PUT /api/products/:id" /\ Authenticated(req')
      /\ Str(ParamId(req')) \in IdsOf(products))
       => LET old == products[CHOOSE i \in 1..Len(products) :
                                /\ products[i]["id"] = Str(ParamId(req'))
                                /\ \A j \in 1..(i - 1) :
                                     products[j]["id"] # Str(ParamId(req'))]
              merged == [k \in Keys |->
                           IF req'.body[k] # Undefined THEN req'.body[k] ELSE old[k]]
          IN res'.status = IF SatisfiesFieldRules(merged) THEN 200 ELSE 400]_vars

\* The page and limit a request supplies as integers.
IsInteger(v) ==
  /\ v.t = "string"
  /\ LET unsigned == IF Len(v.s) > 0 /\ CharAt(v.s, 1) = "-"
                     THEN SubSeq(v.s, 2, Len(v.s)) ELSE v.s
     IN Len(unsigned) > 0 /\ \A i \in 1..Len(unsigned) : IsDigit(CharAt(unsigned, i))

\* The elements of f at the positions lo..hi-1, counted from 0.
ElementsAt(f, lo, hi) ==
  LET a == IF lo < 0 THEN 0 ELSE lo
      b == IF hi > Len(f) THEN Len(f) ELSE hi
  IN IF b <= a THEN <<>> ELSE [j \in 1..(b - a) |-> f[a + j]]

ListAnswered == Done /\ Handler(req) = "GET /api/products" /\ res.status = 200

PageAsked == ParseInt(req.query.page).n

LimitAsked == ParseInt(req.query.limit).n

PageOf(P, L) ==
  /\ res.products = ElementsAt(Filtered(products, req.query), (P - 1) * L, P * L)
  /\ res.total = Len(Filtered(products, req.query))

\* C5 as stated: for every supplied integer page P and limit L, zero and
\* negative ones included, the products are the elements [(P-1)L, min(PL,N))
\* of the filtered set and total is N.
C5_PaginationAnyInteger ==
  ListAnswered /\ IsInteger(req.query.page) /\ IsInteger(req.query.limit)
    => PageOf(PageAsked, LimitAsked)

\* C5 amended: for every supplied integer page P >= 1 and limit L >= 1 the
\* products are the elements [(P-1)L, min(PL,N)) of the filtered set; total
\* is N for every page and limit.
C5_PaginationPositive ==
  ListAnswered
    => /\ res.total = Len(Filtered(products, req.query))
       /\ IsInteger(req.query.page) /\ IsInteger(req.query.limit)
          /\ PageAsked >= 1 /\ LimitAsked >= 1
            => PageOf(PageAsked, LimitAsked)

\* A second page that the end of the filtered set cuts short.
C5_Witness ==
  /\ ListAnswered
  /\ IsInteger(req.query.page) /\ IsInteger(req.query.limit)
  /\ PageAsked = 2 /\ LimitAsked = 2
  /\ Len(Filtered(products, req.query)) = 3
  /\ Len(res.products) = 1

\* C6: on a mutating route a request without the right API key is answered
\* 401 whatever its body and path id, and the store stays as it is.
C6_AuthFirst ==
  [][(Done' /\ Handler(req') \in Mutating /\ ~Authenticated(req'))
       => res'.status = 401 /\ res'.error.name = "AuthError" /\ products' = products]_vars

\* An update without the right key, of an id that is not stored, with a body
\* the validation rejects: answered 401.
C6_Witness ==
  /\ Done /\ Handler(req) = "PUT /api/products/:id"
  /\ req.key = Str("wrong-key")
  /\ ~SatisfiesFieldRules(req.body)
  /\ Str(ParamId(req)) \notin IdsOf(products)
  /\ res.status = 401

\* C7: every stored product has a non-empty string name, a non-empty string
\* description, a price above zero, a non-empty string category and a
\* boolean inStock.
C7_StoredProductsValid ==
  \A i \in 1..Len(products) : SatisfiesFieldRules(products[i])

\* A product has been created and the first product of the seed updated.
C7_Witness ==
  /\ Len(products) > Len(SeedProducts)
  /\ products[1]["id"] = Str("1") /\ products[1] # SeedProducts[1]

\* s is t with some elements left out, the others in their order.
RECURSIVE IsSubsequence(_, _)
IsSubsequence(s, t) ==
  IF Len(s) = 0 THEN TRUE
  ELSE IF Len(t) = 0 THEN FALSE
  ELSE IF Head(s) = Head(t) THEN IsSubsequence(Tail(s), Tail(t))
  ELSE IsSubsequence(s, Tail(t))

\* C8: a successful create appends the new record, a successful update
\* leaves every record at its index and changes the updated one alone, a
\* successful delete keeps the remaining records in their order, and every
\* other request changes nothing.
C8_InsertionOrder ==
  [][Done' =>
       CASE res'.status = 201 ->
              /\ Len(products') = Len(products) + 1
              /\ SubSeq(products', 1, Len(products)) = products
              /\ products'[Len(products')] = res'.product
         [] res'.status = 200 /\ Handler(req') = "PUT /api/products/:id" ->
              /\ Len(products') = Len(products)
              /\ \E i \in 1..Len(products) :
                   /\ products[i]["id"] = Str(ParamId(req'))
                   /\ products'[i] = res'.product
                   /\ \A j \in 1..Len(products) : j # i => products'[j] = products[j]
         [] res'.status = 204 ->
              /\ Len(products') < Len(products)
              /\ IsSubsequence(products', products)
              /\ \A i \in 1..Len(products) :
                   products[i]["id"] # Str(ParamId(req'))
                     => \E j \in 1..Len(products') : products'[j] = products[i]
         [] OTHER -> products' = products]_vars

\* A delete of the first record has left a seed record and a created one.
C8_Witness ==
  /\ Done /\ res.status = 204
  /\ Len(products) = Len(SeedProducts)
  /\ products[1]["id"] = Str("2")
  /\ products[Len(products)]["id"] = Str(uuidv4(1))

\* C9: an authenticated delete answers 204 only for an id that is stored; for
\* an id that is not stored it answers 404 and leaves the store as it is; and
\* an id deleted with 204 and not created since is answered 404.
C9_DeleteTwice ==
  [][(Done' /\ Handler(req') = "DELETE /api/products/:id" /\ Authenticated(req'))
       => /\ res'.status = 204 => Str(ParamId(req')) \in IdsOf(products)
          /\ Str(ParamId(req')) \notin IdsOf(products)
               => res'.status = 404 /\ products' = products
          /\ ParamId(req') \in deleted => res'.status = 404]_vars

\* The second delete of an id, answered 404.
C9_Witness ==
  /\ Done /\ Handler(req) = "DELETE /api/products/:id" /\ Authenticated(req)
  /\ ParamId(req) \in deleted
  /\ res.status = 404

\* C10: a successful update stores and returns a record whose id is the path
\* id, whatever id the payload carries, and no update changes the id of a
\* stored record.
C10_UpdateKeepsId ==
  [][(Done' /\ Handler(req') = "PUT /api/products/:id")
       => /\ res'.status = 200
               => /\ res'.product["id"] = Str(ParamId(req'))
                  /\ \E i \in 1..Len(products') : products'[i] = res'.product
          /\ Len(products') = Len(products)
          /\ \A i \in 1..Len(products) : products'[i]["id"] = products[i]["id"]]_vars

\* A successful update whose payload carries another id than the path.
C10_Witness ==
  /\ Done /\ Handler(req) = "PUT /api/products/:id" /\ res.status = 200
  /\ req.body["id"] # Undefined
  /\ req.body["id"] # Str(ParamId(req))
  /\ res.product["id"] = Str(ParamId(req))

====
